---- MODULE Spec2Model ----
(***************************************************************************)
(* Model of marengo::jpeg::Image (src/src/jpg_handler/jpeg.cpp): the       *)
(* in-memory bitmap, its accessors (getPixel, getAverage), the resampler   *)
(* (shrink, expand, resize) and the two error-diffusion ditherers (fsd,    *)
(* fsdColor).                                                              *)
(*                                                                         *)
(* Conventions.                                                            *)
(*  - A bitmap is a sequence of rows, a row a sequence of bytes.  The code *)
(*    indexes from 0, sequences from 1: At(bm, r, c) is bm[r][c] of the    *)
(*    code.                                                                *)
(*  - uint8_t arithmetic is taken modulo 256 (Uint8).                      *)
(*  - size_t values are kept modulo 2^w by their two's-complement          *)
(*    representative: a negative integer v stands for 2^w + v.  Sums and   *)
(*    differences are then plain integer sums; only the unsigned           *)
(*    comparisons differ (SizeLess).                                       *)
(*  - float is IEEE-754 binary32, expressions evaluated in float           *)
(*    (FLT_EVAL_METHOD 0).  A float is the record [m, e] standing for      *)
(*    m / 2^e with 2^23 <= m < 2^24.                                       *)
(*  - An out-of-bounds access to a std::vector is undefined behaviour:     *)
(*    ub becomes TRUE and the operation ends in any of several outcomes    *)
(*    (the process dies, or the call returns with bytes nobody chose).     *)
(*  - fsd and fsdColor advance one pixel per step (row, col are their loop *)
(*    cursors); no other operation runs while pc is not "idle".            *)
(***************************************************************************)
EXTENDS Integers, Sequences, FiniteSets, TLC

VARIABLES
    m_bitmapData,   \* std::vector<std::vector<uint8_t>>
    m_width,        \* size_t
    m_height,       \* size_t
    m_pixelSize,    \* size_t: samples per pixel
    pc,             \* "idle", "fsd", "fsdColor" (inside that loop) or "crashed"
    row,            \* loop cursor of the running ditherer
    col,            \* loop cursor of the running ditherer
    vecNewBitmap,   \* fsd's grayscale working copy
    ub,             \* TRUE once an operation has executed undefined behaviour
    call,           \* the last operation called and its arguments
    pre,            \* the object's fields when that operation was called
    ret,            \* what it returned: [raised, val]
    nops            \* number of operations called so far

vars == <<m_bitmapData, m_width, m_height, m_pixelSize, pc, row, col,
          vecNewBitmap, ub, call, pre, ret, nops>>

----------------------------------------------------------------------------
(* Bounds of the model *)

MaxWidth == 3
MaxHeight == 3
MaxNewWidth == 4
MaxOps == 2
MaxBox == 2
MaxCoord == 1
MaxFsdWidth == 4
MaxFsdHeight == 3

----------------------------------------------------------------------------
(* Machine arithmetic *)

Uint8(n) == n % 256

\* C's integer division (truncation toward zero); b > 0
TruncDiv(a, b) == IF a >= 0 THEN a \div b ELSE -((-a) \div b)

\* a < b on size_t
SizeLess(a, b) == IF (a < 0) = (b < 0) THEN a < b ELSE b < 0

SizeGeq(a, b) == ~SizeLess(a, b)

RECURSIVE FloatExp(_, _, _)
\* the least e with p * 2^e / q >= 2^23
FloatExp(p, q, e) == IF p * 2^e >= q * 2^23 THEN e ELSE FloatExp(p, q, e + 1)

\* round-to-nearest-even of n / q to an integer
RoundNearestEven(n, q) ==
    LET f == n \div q
        r == n % q
    IN  IF 2 * r > q THEN f + 1
        ELSE IF 2 * r = q THEN f + (f % 2)
        ELSE f

\* static_cast<float>(p) / q for small positive integers p and q
FloatQuotient(p, q) ==
    LET e == FloatExp(p, q, 0)
        m == RoundNearestEven(p * 2^e, q)
    IN  IF m = 2^24 THEN [m |-> 2^23, e |-> e - 1] ELSE [m |-> m, e |-> e]

RECURSIVE Log2Below(_, _)
\* the k with 2^k < n <= 2^(k+1), for n >= 2
Log2Below(n, k) == IF n <= 2^(k + 1) THEN k ELSE Log2Below(n, k + 1)

\* static_cast<size_t> of the float nearest to p / q: the quotient rounds up
\* to the next integer n exactly when it is within half an ulp below n.
FloorOfRounded(p, q) ==
    LET f == p \div q
        n == f + 1
        d == n * q - p
        k == IF n = 1 THEN -1 ELSE Log2Below(n, 0)
    IN  IF p % q = 0 THEN f
        ELSE IF d <= q \div 2^(24 - k) THEN n
        ELSE f

\* static_cast<size_t>( scaleFactor * n )
MulTrunc(sf, n) == FloorOfRounded(sf.m * n, 2^sf.e)

\* static_cast<size_t>( n / scaleFactor )
DivTrunc(n, sf) == FloorOfRounded(n * 2^sf.e, sf.m)

----------------------------------------------------------------------------
(* Bitmaps *)

At(bm, r, c) == bm[r + 1][c + 1]

InRange(bm, r, c) == r + 1 \in DOMAIN bm /\ c + 1 \in DOMAIN bm[r + 1]

\* bm[r][c] = v
Store(bm, r, c, v) == [bm EXCEPT ![r + 1][c + 1] = v]

\* bm[r][c] += d, on uint8_t
AddTo(bm, r, c, d) == [bm EXCEPT ![r + 1][c + 1] = Uint8(@ + d)]

\* std::vector<T>( n ): n zeros
Zeros(n) == [i \in 1..n |-> 0]

----------------------------------------------------------------------------
(* Image::getPixel, Image::getAverage *)

\* getPixel( x, y ): the pixel's samples, or the out_of_range it throws
getPixel(bm, ps, x, y) ==
    IF SizeGeq(y, Len(bm)) THEN [raised |-> TRUE, val |-> <<>>]
    ELSE IF SizeGeq(x, Len(bm[1]) \div ps) THEN [raised |-> TRUE, val |-> <<>>]
    ELSE [raised |-> FALSE, val |-> [n \in 1..ps |-> At(bm, y, x * ps + n - 1)]]

\* the values a loop "for ( i = a; i < a + n; ++i )" on size_t runs through
LoopRange(a, n) == IF SizeLess(a, a + n) THEN [i \in 1..n |-> a + i - 1] ELSE <<>>

\* the anchor after the clamp of lines 245-252
ClampAnchor(x, boxSize, extent) ==
    IF SizeGeq(x + boxSize, extent) THEN extent - boxSize ELSE x

RECURSIVE SumChannel(_, _, _)
\* the running total of channel n over the pixels read
SumChannel(pixels, n, i) ==
    IF i > Len(pixels) THEN 0 ELSE pixels[i][n] + SumChannel(pixels, n, i + 1)

getAverage(bm, w, h, ps, x, y, boxSize) ==
    IF SizeLess(w, boxSize) \/ SizeLess(h, boxSize)
    THEN [raised |-> TRUE, val |-> <<>>]
    ELSE LET x1 == ClampAnchor(x, boxSize, w)
             y1 == ClampAnchor(y, boxSize, h)
             rows == LoopRange(y1, boxSize)
             cols == LoopRange(x1, boxSize)
             nr == Len(rows)
             nc == Len(cols)
             got == [i \in 1..(nr * nc) |->
                        getPixel(bm, ps, cols[((i - 1) % nc) + 1],
                                 rows[((i - 1) \div nc) + 1])]
             pixels == [i \in 1..(nr * nc) |-> got[i].val]
         IN  IF \E i \in 1..(nr * nc) : got[i].raised
             THEN [raised |-> TRUE, val |-> <<>>]
             ELSE [raised |-> FALSE,
                   val |-> [n \in 1..ps |->
                       Uint8(SumChannel(pixels, n, 1) \div (boxSize * boxSize))]]

----------------------------------------------------------------------------
(* Image::shrink *)

RECURSIVE AccumulateRow(_, _, _, _, _)
\* lines 312-317: add one source row to the running totals and counts
AccumulateRow(acc, line, sf, n, c) ==
    IF c = n THEN acc
    ELSE LET idx == MulTrunc(sf, c)
         IN  IF idx + 1 \in DOMAIN acc.tot /\ c + 1 \in DOMAIN line
             THEN AccumulateRow([acc EXCEPT !.tot[idx + 1] = @ + line[c + 1],
                                            !.cnt[idx + 1] = @ + 1],
                                line, sf, n, c + 1)
             ELSE [acc EXCEPT !.ub = TRUE]

\* line 318: is a destination row emitted after source row r?
FlushDue(sf, r, oldRow) == MulTrunc(sf, r) > oldRow

\* lines 321-329: the emitted row
FlushLine(acc) == [i \in DOMAIN acc.tot |-> Uint8(acc.tot[i] \div acc.cnt[i])]

RECURSIVE ShrinkRows(_, _, _, _, _, _, _, _)
\* lines 310-331: the loop over the source rows, from row r on
ShrinkRows(bm, sf, w, h, n, r, oldRow, st) ==
    IF r = h \/ st.ub THEN st
    ELSE IF r + 1 \notin DOMAIN bm THEN [st EXCEPT !.ub = TRUE]
    ELSE LET a == AccumulateRow(st, bm[r + 1], sf, w, 0)
         IN  IF a.ub THEN a
             ELSE IF FlushDue(sf, r, oldRow)
             THEN IF \E i \in DOMAIN a.cnt : a.cnt[i] = 0
                  THEN [a EXCEPT !.ub = TRUE]
                  ELSE ShrinkRows(bm, sf, w, h, n, r + 1, MulTrunc(sf, r),
                                  [tot |-> Zeros(n), cnt |-> Zeros(n), ub |-> FALSE,
                                   out |-> Append(a.out, FlushLine(a))])
             ELSE ShrinkRows(bm, sf, w, h, n, r + 1, oldRow, a)

\* lines 301-332: vecNewBitmap, and whether its computation was undefined
ShrinkBitmap(bm, w, h, ps, newWidth) ==
    LET sf == FloatQuotient(newWidth, w)
        n == newWidth * ps
        st == ShrinkRows(bm, sf, w * ps, h, n, 0, 0,
                         [tot |-> Zeros(n), cnt |-> Zeros(n), ub |-> FALSE, out |-> <<>>])
    IN  [bitmap |-> st.out, ub |-> st.ub]

\* line 302: newHeight
ScaledHeight(w, h, newWidth) == MulTrunc(FloatQuotient(newWidth, w), h)

----------------------------------------------------------------------------
(* Image::expand *)

\* lines 584-603
ExpandBitmap(bm, w, h, ps, newWidth) ==
    LET sf == FloatQuotient(newWidth, w)
        newHeight == MulTrunc(sf, h)
        oldRow(r) == DivTrunc(r, sf)
        oldCol(j) == DivTrunc(j \div ps, sf) * ps + (j % ps)
        ok == \A r \in 0..(newHeight - 1) : \A j \in 0..(newWidth * ps - 1) :
                  InRange(bm, oldRow(r), oldCol(j))
    IN  IF ok
        THEN [bitmap |-> [r \in 1..newHeight |-> [j \in 1..(newWidth * ps) |->
                             At(bm, oldRow(r - 1), oldCol(j - 1))]],
              ub |-> FALSE]
        ELSE [bitmap |-> <<>>, ub |-> TRUE]

----------------------------------------------------------------------------
(* Image::fsd *)

\* lines 394-403: the grayscale copy.  The loop takes the samples three by
\* three whatever m_pixelSize is.
ToGray(bm, w, h, ps) ==
    LET k == (w * ps + 2) \div 3
    IN  IF \A r \in 0..(h - 1) : \A j \in 0..(k - 1) : InRange(bm, r, 3 * j + 2)
        THEN [bitmap |-> [r \in 1..h |-> [j \in 1..k |->
                 Uint8((At(bm, r - 1, 3 * j - 3) + At(bm, r - 1, 3 * j - 2)
                        + At(bm, r - 1, 3 * j - 1)) \div 3)]],
              ub |-> FALSE]
        ELSE [bitmap |-> <<>>, ub |-> TRUE]

\* line 416
FsdBorder(r, c, w, h) == c = 0 \/ c = w - 1 \/ r = h - 1

\* the threshold with the usual polarity: light stays light
FsdQuantizeConventional(oldPixel) == IF oldPixel <= 128 THEN 0 ELSE 255

\* line 420
FsdQuantize(oldPixel) == IF oldPixel <= 128 THEN 255 ELSE 0

\* line 421: error is a uint8_t
FsdError(oldPixel, newPixel) == Uint8(oldPixel - newPixel)

\* error*7/16 and the like: int arithmetic, one truncation per term
Weighted(error, numerator) == TruncDiv(error * numerator, 16)

\* lines 419-426
FsdPixel(vec, r, c) ==
    LET oldPixel == At(vec, r, c)
        newPixel == FsdQuantize(oldPixel)
        error == FsdError(oldPixel, newPixel)
        v1 == AddTo(vec, r, c + 1, Weighted(error, 7))
        v2 == AddTo(v1, r + 1, c + 1, Weighted(error, 1))
        v3 == AddTo(v2, r + 1, c, Weighted(error, 5))
        v4 == AddTo(v3, r + 1, c - 1, Weighted(error, 3))
    IN  Store(v4, r, c, newPixel)

\* lines 416-427: one turn of the inner loop, and whether it stays in bounds
FsdVisit(vec, r, c, w, h) ==
    IF FsdBorder(r, c, w, h)
    THEN IF InRange(vec, r, c)
         THEN [bitmap |-> Store(vec, r, c, 255), ub |-> FALSE]
         ELSE [bitmap |-> vec, ub |-> TRUE]
    ELSE IF /\ InRange(vec, r, c) /\ InRange(vec, r, c + 1)
            /\ InRange(vec, r + 1, c + 1) /\ InRange(vec, r + 1, c)
            /\ InRange(vec, r + 1, c - 1)
         THEN [bitmap |-> FsdPixel(vec, r, c), ub |-> FALSE]
         ELSE [bitmap |-> vec, ub |-> TRUE]

\* lines 432-446: every gray sample three times
ToThreeChannels(vec, w, h) ==
    IF \A r \in 0..(h - 1) : \A c \in 0..(w - 1) : InRange(vec, r, c)
    THEN [bitmap |-> [r \in 1..h |-> [j \in 1..(3 * w) |-> At(vec, r - 1, (j - 1) \div 3)]],
          ub |-> FALSE]
    ELSE [bitmap |-> <<>>, ub |-> TRUE]

----------------------------------------------------------------------------
(* Image::fsdColor *)

\* lines 461-468
palet == << <<56, 72, 141>>,     \* 0x38 0x48 0x8d
            <<84, 122, 73>>,     \* 0x54 0x7a 0x49
            <<159, 75, 78>>,     \* 0x9f 0x4b 0x4e
            <<36, 41, 51>>,      \* 0x24 0x29 0x33
            <<201, 209, 104>>,   \* 0xc9 0xd1 0x68
            <<181, 93, 76>>,     \* 0xb5 0x5d 0x4c
            <<211, 221, 228>> >> \* 0xd3 0xdd 0xe4

\* lines 513-522: the number under the square root.  auxDistance is the float
\* nearest to its root; below 2^20 two different integers have roots more than
\* a float ulp apart, so the floats compare as these integers do.
auxDistance(r, g, b, idxPalet) ==
    LET deltaR == r - palet[idxPalet + 1][1]
        deltaG == g - palet[idxPalet + 1][2]
        deltaB == b - palet[idxPalet + 1][3]
        rHat == (r + palet[idxPalet + 1][1]) \div 2
    IN  IF rHat < 128
        THEN (2 * deltaR * deltaR) + (4 * deltaG * deltaG) + (3 * deltaB * deltaB)
        ELSE (3 * deltaR * deltaR) + (4 * deltaG * deltaG) + (2 * deltaB * deltaB)

\* the comparison turned round: the farthest entry wins
CloserReversed(shortDistance, distance) == shortDistance < distance

\* line 528
Closer(shortDistance, distance) == shortDistance > distance

RECURSIVE idColor(_, _, _, _, _)
\* lines 512-533: the palette search from entry idxPalet on; best is the
\* entry kept so far
idColor(r, g, b, idxPalet, best) ==
    IF idxPalet = 7 THEN best
    ELSE IF idxPalet = 0 THEN idColor(r, g, b, 1, 0)
    ELSE IF Closer(auxDistance(r, g, b, best), auxDistance(r, g, b, idxPalet))
         THEN idColor(r, g, b, idxPalet + 1, idxPalet)
         ELSE idColor(r, g, b, idxPalet + 1, best)

\* line 501
ColorBorder(r, c, w, h, ps) == c = 0 \/ SizeGeq(c, (w * ps) - ps) \/ r = h - 1

\* lines 544-546: the errors are int16_t
ColorError(oldPixel, newPixel) == oldPixel - newPixel

\* the first share sent to the pixel on the left, which was visited already
ColorTargetsBehind(r, c) ==
    << [row |-> r, col |-> c - 3, num |-> 7],
       [row |-> r + 1, col |-> c + 3, num |-> 1],
       [row |-> r + 1, col |-> c, num |-> 5],
       [row |-> r + 1, col |-> c - 3, num |-> 3] >>

\* lines 548-562: the pixels the error of the pixel at (r, c) is added to, in
\* the order of the code: row, first sample, sixteenths received
ColorTargets(r, c) ==
    << [row |-> r, col |-> c + 3, num |-> 7],
       [row |-> r + 1, col |-> c + 3, num |-> 1],
       [row |-> r + 1, col |-> c, num |-> 5],
       [row |-> r + 1, col |-> c - 3, num |-> 3] >>

\* lines 507-566
ColorPixel(bm, r, c) ==
    LET id == idColor(At(bm, r, c), At(bm, r, c + 1), At(bm, r, c + 2), 0, 0)
        err == [n \in 0..2 |-> ColorError(At(bm, r, c + n), palet[id + 1][n + 1])]
        spread(b, rr, cc, num) ==
            AddTo(AddTo(AddTo(b, rr, cc, Weighted(err[0], num)),
                        rr, cc + 1, Weighted(err[1], num)),
                  rr, cc + 2, Weighted(err[2], num))
        t == ColorTargets(r, c)
        b1 == spread(bm, t[1].row, t[1].col, t[1].num)
        b2 == spread(b1, t[2].row, t[2].col, t[2].num)
        b3 == spread(b2, t[3].row, t[3].col, t[3].num)
        b4 == spread(b3, t[4].row, t[4].col, t[4].num)
    IN  Store(Store(Store(b4, r, c, palet[id + 1][1]),
                    r, c + 1, palet[id + 1][2]),
              r, c + 2, palet[id + 1][3])

\* lines 501-567: one turn of the inner loop, and whether it stays in bounds
ColorVisit(bm, r, c, w, h, ps) ==
    IF ColorBorder(r, c, w, h, ps)
    THEN IF InRange(bm, r, c) /\ InRange(bm, r, c + 2)
         THEN [bitmap |-> Store(Store(Store(bm, r, c, palet[1][1]),
                                      r, c + 1, palet[1][2]),
                                r, c + 2, palet[1][3]),
               ub |-> FALSE]
         ELSE [bitmap |-> bm, ub |-> TRUE]
    ELSE IF /\ InRange(bm, r, c) /\ InRange(bm, r, c + 5)
            /\ InRange(bm, r + 1, c - 3) /\ InRange(bm, r + 1, c + 5)
         THEN [bitmap |-> ColorPixel(bm, r, c), ub |-> FALSE]
         ELSE [bitmap |-> bm, ub |-> TRUE]

----------------------------------------------------------------------------
(* The object and its operations *)

\* samples an out-of-bounds read may deliver
GarbageBytes == {0, 90, 255}

\* sizes read from where no vector is
GarbageSizes == {0, 2, 7}

NoValue == [raised |-> FALSE, val |-> <<>>]

OutOfRange == [raised |-> TRUE, val |-> <<>>]

Snapshot == [width |-> m_width, height |-> m_height,
             pixelSize |-> m_pixelSize, bitmap |-> m_bitmapData]

\* the constructor's result (lines 91-107): w x h pixels of ps samples
Loaded(bm, w, h, ps) ==
    /\ m_bitmapData = bm
    /\ m_width = w
    /\ m_height = h
    /\ m_pixelSize = ps
    /\ pc = "idle"
    /\ row = 0
    /\ col = 0
    /\ vecNewBitmap = <<>>
    /\ ub = FALSE
    /\ call = [op |-> "Image", x |-> 0, y |-> 0, boxSize |-> 0]
    /\ pre = [width |-> w, height |-> h, pixelSize |-> ps, bitmap |-> bm]
    /\ ret = NoValue
    /\ nops = 0

Callable == pc = "idle" /\ ~ub /\ nops < MaxOps

Enter(op, x, y, boxSize) ==
    /\ call' = [op |-> op, x |-> x, y |-> y, boxSize |-> boxSize]
    /\ pre' = Snapshot
    /\ nops' = nops + 1

\* lines 283-335
ShrinkBody(newWidth) ==
    IF SizeGeq(newWidth, m_width)
    THEN /\ UNCHANGED <<m_bitmapData, m_width, m_height, ub, pc>>
         /\ ret' = NoValue
    ELSE IF newWidth = 0
    THEN /\ UNCHANGED <<m_bitmapData, m_width, m_height, ub, pc>>
         /\ ret' = OutOfRange
    ELSE LET s == ShrinkBitmap(m_bitmapData, m_width, m_height, m_pixelSize, newWidth)
         IN  /\ m_bitmapData' = s.bitmap
             /\ m_height' = Len(s.bitmap)
             /\ ret' = NoValue
             /\ IF s.ub \/ s.bitmap = <<>>
                THEN \* line 334 reads m_bitmapData[0] of an empty vector
                     /\ ub' = TRUE
                     /\ pc' \in {"crashed", "idle"}
                     /\ m_width' \in GarbageSizes
                ELSE /\ ub' = FALSE
                     /\ pc' = "idle"
                     /\ m_width' = Len(s.bitmap[1]) \div m_pixelSize

\* lines 577-607
ExpandBody(newWidth) ==
    IF SizeGeq(m_width, newWidth)
    THEN /\ UNCHANGED <<m_bitmapData, m_width, m_height, ub, pc>>
         /\ ret' = NoValue
    ELSE LET s == ExpandBitmap(m_bitmapData, m_width, m_height, m_pixelSize, newWidth)
         IN  /\ m_bitmapData' = s.bitmap
             /\ m_height' = Len(s.bitmap)
             /\ ret' = NoValue
             /\ IF s.ub \/ s.bitmap = <<>>
                THEN /\ ub' = TRUE
                     /\ pc' \in {"crashed", "idle"}
                     /\ m_width' \in GarbageSizes
                ELSE /\ ub' = FALSE
                     /\ pc' = "idle"
                     /\ m_width' = Len(s.bitmap[1]) \div m_pixelSize

Shrink(newWidth) ==
    /\ Callable
    /\ Enter("shrink", newWidth, 0, 0)
    /\ ShrinkBody(newWidth)
    /\ UNCHANGED <<m_pixelSize, row, col, vecNewBitmap>>

Expand(newWidth) ==
    /\ Callable
    /\ Enter("expand", newWidth, 0, 0)
    /\ ExpandBody(newWidth)
    /\ UNCHANGED <<m_pixelSize, row, col, vecNewBitmap>>

\* lines 609-619
Resize(newWidth) ==
    /\ Callable
    /\ Enter("resize", newWidth, 0, 0)
    /\ IF SizeLess(newWidth, m_width) THEN ShrinkBody(newWidth)
       ELSE IF SizeLess(m_width, newWidth) THEN ExpandBody(newWidth)
       ELSE /\ UNCHANGED <<m_bitmapData, m_width, m_height, ub, pc>>
            /\ ret' = NoValue
    /\ UNCHANGED <<m_pixelSize, row, col, vecNewBitmap>>

\* lines 199-215
GetPixel(x, y) ==
    /\ Callable
    /\ Enter("getPixel", x, y, 0)
    /\ ret' = getPixel(m_bitmapData, m_pixelSize, x, y)
    /\ UNCHANGED <<m_bitmapData, m_width, m_height, m_pixelSize, pc, row, col,
                   vecNewBitmap, ub>>

\* lines 234-281
GetAverage(x, y, boxSize) ==
    /\ Callable
    /\ Enter("getAverage", x, y, boxSize)
    /\ ret' = getAverage(m_bitmapData, m_width, m_height, m_pixelSize, x, y, boxSize)
    /\ UNCHANGED <<m_bitmapData, m_width, m_height, m_pixelSize, pc, row, col,
                   vecNewBitmap, ub>>

\* fsd after an access out of bounds: the process dies, or lines 432-456 still
\* run on whatever the gray copy then holds
FsdUndefined ==
    /\ ub' = TRUE
    /\ pc' \in {"crashed", "idle"}
    /\ m_pixelSize' = 3
    /\ m_bitmapData' \in {[r \in 1..m_height |-> [j \in 1..(3 * m_width) |-> g]] :
                             g \in GarbageBytes}
    /\ vecNewBitmap' = <<>>
    /\ row' = 0
    /\ col' = 0
    /\ UNCHANGED <<m_width, m_height>>

\* lines 384-403: fsd is called and makes its grayscale copy
Fsd ==
    /\ Callable
    /\ Enter("fsd", 0, 0, 0)
    /\ ret' = NoValue
    /\ LET g == ToGray(m_bitmapData, m_width, m_height, m_pixelSize)
       IN  IF g.ub THEN FsdUndefined
           ELSE /\ vecNewBitmap' = g.bitmap
                /\ pc' = "fsd"
                /\ row' = 0
                /\ col' = 0
                /\ UNCHANGED <<m_bitmapData, m_width, m_height, m_pixelSize, ub>>

\* lines 409-430: one turn of the inner loop
FsdStep ==
    /\ pc = "fsd"
    /\ row < m_height
    /\ UNCHANGED <<call, pre, ret, nops>>
    /\ LET v == FsdVisit(vecNewBitmap, row, col, m_width, m_height)
       IN  IF v.ub THEN FsdUndefined
           ELSE /\ vecNewBitmap' = v.bitmap
                /\ IF col + 1 < m_width
                   THEN row' = row /\ col' = col + 1
                   ELSE row' = row + 1 /\ col' = 0
                /\ UNCHANGED <<m_bitmapData, m_width, m_height, m_pixelSize, ub, pc>>

\* lines 432-456: back to three channels, and the fields are set
FsdEnd ==
    /\ pc = "fsd"
    /\ row = m_height
    /\ UNCHANGED <<call, pre, ret, nops>>
    /\ LET d == ToThreeChannels(vecNewBitmap, m_width, m_height)
       IN  IF d.ub THEN FsdUndefined
           ELSE /\ m_pixelSize' = 3
                /\ m_bitmapData' = d.bitmap
                /\ m_height' = Len(d.bitmap)
                /\ m_width' = Len(d.bitmap[1]) \div 3
                /\ pc' = "idle"
                /\ vecNewBitmap' = <<>>
                /\ row' = 0
                /\ col' = 0
                /\ UNCHANGED ub

\* fsdColor after an access out of bounds: the process dies, or lines 571-574
\* still run on whatever the rows then hold
ColorUndefined ==
    /\ ub' = TRUE
    /\ pc' \in {"crashed", "idle"}
    /\ m_pixelSize' = 3
    /\ m_bitmapData' \in {[r \in DOMAIN m_bitmapData |->
                              [j \in DOMAIN m_bitmapData[r] |-> g]] : g \in GarbageBytes}
    /\ m_width' = Len(m_bitmapData[1]) \div 3
    /\ row' = 0
    /\ col' = 0
    /\ UNCHANGED <<m_height, vecNewBitmap>>

\* lines 459-490: fsdColor is called
FsdColor ==
    /\ Callable
    /\ Enter("fsdColor", 0, 0, 0)
    /\ ret' = NoValue
    /\ pc' = "fsdColor"
    /\ row' = 0
    /\ col' = 0
    /\ UNCHANGED <<m_bitmapData, m_width, m_height, m_pixelSize, vecNewBitmap, ub>>

\* lines 491-569: one turn of the inner loop
FsdColorStep ==
    /\ pc = "fsdColor"
    /\ row < m_height
    /\ UNCHANGED <<call, pre, ret, nops>>
    /\ LET v == ColorVisit(m_bitmapData, row, col, m_width, m_height, m_pixelSize)
       IN  IF v.ub THEN ColorUndefined
           ELSE /\ m_bitmapData' = v.bitmap
                /\ IF col + 3 < m_width * m_pixelSize
                   THEN row' = row /\ col' = col + 3
                   ELSE row' = row + 1 /\ col' = 0
                /\ UNCHANGED <<m_width, m_height, m_pixelSize, vecNewBitmap, ub, pc>>

\* lines 571-574
FsdColorEnd ==
    /\ pc = "fsdColor"
    /\ row = m_height
    /\ UNCHANGED <<call, pre, ret, nops>>
    /\ m_pixelSize' = 3
    /\ m_height' = Len(m_bitmapData)
    /\ m_width' = Len(m_bitmapData[1]) \div 3
    /\ pc' = "idle"
    /\ row' = 0
    /\ col' = 0
    /\ UNCHANGED <<m_bitmapData, vecNewBitmap, ub>>

----------------------------------------------------------------------------
(* Specifications *)

\* a pixel per channel count
TestColours(ps) ==
    IF ps = 1 THEN {<<200>>, <<255>>}
    ELSE {<<255, 0, 0>>, palet[5]}

\* a w x h image of colour a, or of colours a and b in columns or in rows
TestImage(w, h, ps, a, b, pattern) ==
    [r \in 1..h |-> [j \in 1..(w * ps) |->
        LET x == (j - 1) \div ps
            c == IF pattern = "uniform" THEN a
                 ELSE IF pattern = "columns" THEN (IF x % 2 = 0 THEN a ELSE b)
                 ELSE (IF r % 2 = 1 THEN a ELSE b)
        IN  c[((j - 1) % ps) + 1]]]

Init ==
    \E w \in 1..MaxWidth, h \in 1..MaxHeight, ps \in {1, 3} :
        \E a \in TestColours(ps), b \in TestColours(ps) :
            \E pattern \in {"uniform", "columns", "rows"} :
                Loaded(TestImage(w, h, ps, a, b, pattern), w, h, ps)

\* size_t arguments: small ones, and SIZE_MAX (-1)
SizeArgs == (-1)..MaxCoord

Next ==
    \/ \E newWidth \in 0..MaxNewWidth : Shrink(newWidth)
    \/ \E newWidth \in 0..MaxNewWidth : Expand(newWidth)
    \/ \E newWidth \in 0..MaxNewWidth : Resize(newWidth)
    \/ \E x \in SizeArgs, y \in SizeArgs : GetPixel(x, y)
    \/ \E x \in SizeArgs, y \in SizeArgs, boxSize \in 1..MaxBox : GetAverage(x, y, boxSize)
    \/ Fsd
    \/ FsdStep
    \/ FsdEnd
    \/ FsdColor
    \/ FsdColorStep
    \/ FsdColorEnd

Spec == Init /\ [][Next]_vars

\* fsd alone, on gray and coloured images of one or three channels
FsdColours(ps) ==
    IF ps = 1 THEN {<<0>>, <<128>>, <<129>>, <<255>>}
    ELSE {<<0, 0, 0>>, <<64, 64, 64>>, <<128, 128, 128>>, <<129, 129, 129>>,
          <<200, 200, 200>>, <<255, 255, 255>>, <<255, 0, 0>>}

InitFsd ==
    \E w \in 1..MaxFsdWidth, h \in 1..MaxFsdHeight, ps \in {1, 3} :
        \E a \in FsdColours(ps), b \in FsdColours(ps) :
            \E pattern \in {"uniform", "columns", "rows"} :
                Loaded(TestImage(w, h, ps, a, b, pattern), w, h, ps)

NextFsd == Fsd \/ FsdStep \/ FsdEnd

SpecFsd == InitFsd /\ [][NextFsd]_vars

\* fsdColor alone, on three-channel images of palette colours, white and red
PaletteColours == {palet[k] : k \in 1..7} \cup {<<255, 255, 255>>, <<255, 0, 0>>}

InitFsdColor ==
    \E w \in 1..MaxFsdWidth, h \in 1..MaxFsdHeight :
        \E a \in PaletteColours, b \in PaletteColours :
            \E pattern \in {"uniform", "columns", "rows"} :
                Loaded(TestImage(w, h, 3, a, b, pattern), w, h, 3)

NextFsdColor == FsdColor \/ FsdColorStep \/ FsdColorEnd

SpecFsdColor == InitFsdColor /\ [][NextFsdColor]_vars

----------------------------------------------------------------------------
(* Properties *)

\* the pixel (x, y) of a bitmap of ps samples per pixel
PixelOf(bm, ps, x, y) == [n \in 1..ps |-> At(bm, y, x * ps + n - 1)]

BufferInvariant ==
    /\ m_height = Len(m_bitmapData)
    /\ m_height >= 1
    /\ m_pixelSize \in {1, 3}
    /\ \A r \in DOMAIN m_bitmapData : Len(m_bitmapData[r]) = m_width * m_pixelSize

\* C1: after any sequence of shrink, expand, resize, fsd and fsdColor calls
\* that returned, the buffer has height = number of rows >= 1, rows of
\* width * channels samples and 1 or 3 channels, and getPixel(x, y) returns
\* `channels` bytes for every pixel.
C1_InvariantKept ==
    pc = "idle" =>
        /\ BufferInvariant
        /\ \A x \in 0..(m_width - 1), y \in 0..(m_height - 1) :
               LET p == getPixel(m_bitmapData, m_pixelSize, x, y)
               IN  ~p.raised /\ Len(p.val) = m_pixelSize

\* C2: after resize(newWidth), newWidth >= 1, the width is newWidth and, when
\* newWidth differs from the old width W, the height is the truncation of
\* (newWidth / W) * H, on the shrink path and on the expand path.
C2_ResizeDimensions ==
    (call.op = "resize" /\ pc = "idle" /\ ~ub /\ call.x >= 1) =>
        /\ m_width = call.x
        /\ call.x # pre.width =>
               m_height = ScaledHeight(pre.width, pre.height, call.x)

\* every pixel of the bitmap is the pixel c
AllPixels(bm, ps, c) ==
    \A r \in DOMAIN bm : \A j \in DOMAIN bm[r] : bm[r][j] = c[((j - 1) % ps) + 1]

\* C3: shrinking a buffer whose pixels all have the colour C to a smaller
\* width 0 < newWidth < width yields a buffer whose pixels all have colour C.
C3_UniformShrink ==
    LET c == PixelOf(pre.bitmap, pre.pixelSize, 0, 0)
    IN  (/\ call.op = "shrink" /\ pc = "idle" /\ ~ub
         /\ 0 < call.x /\ call.x < pre.width
         /\ AllPixels(pre.bitmap, pre.pixelSize, c))
        => AllPixels(m_bitmapData, m_pixelSize, c)

\* C4: after fsd the buffer has 3 channels, the width and the height of the
\* input, only samples 0x00 and 0xFF, and three equal samples per pixel.
C4_FsdOutput ==
    (call.op = "fsd" /\ pc = "idle") =>
        /\ m_pixelSize = 3
        /\ m_width = pre.width
        /\ m_height = pre.height
        /\ Len(m_bitmapData) = m_height
        /\ \A r \in DOMAIN m_bitmapData :
               /\ Len(m_bitmapData[r]) = 3 * m_width
               /\ \A j \in DOMAIN m_bitmapData[r] :
                      /\ m_bitmapData[r][j] \in {0, 255}
                      /\ m_bitmapData[r][j] = m_bitmapData[r][j - ((j - 1) % 3)]

AllFF(bm) == \A r \in DOMAIN bm : \A j \in DOMAIN bm[r] : bm[r][j] = 255

\* is there a pixel fsd does not treat as border?
HasInterior(w, h) == w >= 3 /\ h >= 2

\* C5 as stated: fsd of a buffer of 0xFF samples gives an all-white output and
\* diffuses no error (the gray copy stays 0xFF throughout).
C5_AllWhiteStaysWhite ==
    (call.op = "fsd" /\ ~ub /\ AllFF(pre.bitmap)) =>
        /\ pc = "idle" => AllFF(m_bitmapData)
        /\ pc = "fsd" => AllFF(vecNewBitmap)

\* C5 as amended: fsd of a 3-channel buffer of 0xFF samples gives an all-white
\* output exactly when no pixel is interior (width < 3 or height < 2);
\* otherwise the first interior pixel (row 0, column 1) becomes black and its
\* error of 255 is diffused: 111 to the right, 15 below right, 79 below and
\* 47 below left, each added modulo 256; the border is white.
C5_AllWhiteInput ==
    (call.op = "fsd" /\ ~ub /\ pre.pixelSize = 3 /\ AllFF(pre.bitmap)) =>
        /\ (pc = "fsd" /\ row = 0 /\ col = 2 /\ HasInterior(pre.width, pre.height)) =>
               /\ At(vecNewBitmap, 0, 1) = 0
               /\ At(vecNewBitmap, 0, 2) = 110
               /\ At(vecNewBitmap, 1, 2) = 14
               /\ At(vecNewBitmap, 1, 1) = 78
               /\ At(vecNewBitmap, 1, 0) = 46
        /\ pc = "idle" =>
               IF HasInterior(pre.width, pre.height)
               THEN /\ PixelOf(m_bitmapData, 3, 1, 0) = <<0, 0, 0>>
                    /\ \A x \in 0..(m_width - 1), y \in 0..(m_height - 1) :
                           FsdBorder(y, x, m_width, m_height) =>
                               PixelOf(m_bitmapData, 3, x, y) = <<255, 255, 255>>
               ELSE AllFF(m_bitmapData)

C5_Witness ==
    /\ call.op = "fsd" /\ pc = "idle" /\ ~ub
    /\ pre.pixelSize = 3 /\ AllFF(pre.bitmap)
    /\ HasInterior(pre.width, pre.height)
    /\ PixelOf(m_bitmapData, 3, 1, 0) = <<0, 0, 0>>

\* C6: in the output of fsd every pixel of the first column, the last column
\* and the last row is white; in the output of fsdColor (of a 3-channel
\* buffer) every such pixel is palette[0].
C6_BordersForced ==
    /\ (call.op = "fsd" /\ pc = "idle") =>
           \A x \in 0..(m_width - 1), y \in 0..(m_height - 1) :
               (x = 0 \/ x = m_width - 1 \/ y = m_height - 1) =>
                   PixelOf(m_bitmapData, 3, x, y) = <<255, 255, 255>>
    /\ (call.op = "fsdColor" /\ pc = "idle" /\ pre.pixelSize = 3) =>
           \A x \in 0..(m_width - 1), y \in 0..(m_height - 1) :
               (x = 0 \/ x = m_width - 1 \/ y = m_height - 1) =>
                   PixelOf(m_bitmapData, 3, x, y) = <<56, 72, 141>>

\* C7: in fsdColor (of a 3-channel buffer), when the pixel visited is not a
\* border pixel and equals palette entry k, the entry selected is k, the
\* error is (0,0,0), the pixel is written as palette[k], and the right,
\* below-left, below and below-right neighbours are left as they were.
C7_ExactPaletteMatch ==
    [][(/\ pc = "fsdColor" /\ row < m_height /\ m_pixelSize = 3
        /\ ~ColorBorder(row, col, m_width, m_height, m_pixelSize))
       => \A k \in 0..6 :
              PixelOf(m_bitmapData, 3, col \div 3, row) = palet[k + 1] =>
                  /\ idColor(At(m_bitmapData, row, col), At(m_bitmapData, row, col + 1),
                             At(m_bitmapData, row, col + 2), 0, 0) = k
                  /\ \A n \in 0..2 :
                         ColorError(At(m_bitmapData, row, col + n), palet[k + 1][n + 1]) = 0
                  /\ pc' = "fsdColor"
                  /\ PixelOf(m_bitmapData', 3, col \div 3, row) = palet[k + 1]
                  /\ \A d \in {<<0, 1>>, <<1, -1>>, <<1, 0>>, <<1, 1>>} :
                         PixelOf(m_bitmapData', 3, (col \div 3) + d[2], row + d[1])
                             = PixelOf(m_bitmapData, 3, (col \div 3) + d[2], row + d[1])
      ]_vars

C7_Witness ==
    /\ call.op = "fsdColor" /\ pc = "fsdColor" /\ ~ub
    /\ row = 0 /\ col = 6
    /\ m_width >= 3 /\ m_height >= 2
    /\ PixelOf(pre.bitmap, 3, 1, 0) = palet[7]
    /\ PixelOf(m_bitmapData, 3, 1, 0) = palet[7]
    /\ PixelOf(m_bitmapData, 3, 2, 0) = PixelOf(pre.bitmap, 3, 2, 0)

\* a <= b ? a : b on size_t
SizeMin(a, b) == IF SizeLess(b, a) THEN b ELSE a

\* the per-channel truncated mean of the boxSize x boxSize block at (x, y)
BoxMean(bm, ps, x, y, boxSize) ==
    [n \in 1..ps |->
        SumChannel([i \in 1..(boxSize * boxSize) |->
                       PixelOf(bm, ps, x + ((i - 1) % boxSize), y + ((i - 1) \div boxSize))],
                   n, 1) \div (boxSize * boxSize)]

\* C8: getAverage(x, y, boxSize), boxSize >= 1, raises OutOfRange when boxSize
\* exceeds the width or the height; otherwise it raises nothing and returns
\* the truncated mean of the block anchored at
\* (min(x, width - boxSize), min(y, height - boxSize)).
C8_Average ==
    (call.op = "getAverage" /\ pc = "idle") =>
        IF call.boxSize > pre.width \/ call.boxSize > pre.height
        THEN ret.raised
        ELSE /\ ~ret.raised
             /\ ret.val = BoxMean(pre.bitmap, pre.pixelSize,
                                  SizeMin(call.x, pre.width - call.boxSize),
                                  SizeMin(call.y, pre.height - call.boxSize),
                                  call.boxSize)

\* C9: in fsd, at a pixel that is not a border pixel, new = 0xFF if
\* old <= 128 else 0x00, the error is the signed difference old - new, and the
\* right, below-left, below and below-right neighbours receive error*7/16,
\* error*3/16, error*5/16 and error*1/16, each truncated on the signed error
\* and added to the 8-bit sample.
C9_SignedDiffusion ==
    [][(/\ pc = "fsd" /\ pc' = "fsd" /\ row < m_height
        /\ ~FsdBorder(row, col, m_width, m_height))
       => LET old == At(vecNewBitmap, row, col)
              new == IF old <= 128 THEN 255 ELSE 0
              error == old - new
              share(num) == IF error >= 0 THEN (error * num) \div 16
                            ELSE -(((-error) * num) \div 16)
          IN  /\ At(vecNewBitmap', row, col) = new
              /\ At(vecNewBitmap', row, col + 1)
                     = (At(vecNewBitmap, row, col + 1) + share(7)) % 256
              /\ At(vecNewBitmap', row + 1, col - 1)
                     = (At(vecNewBitmap, row + 1, col - 1) + share(3)) % 256
              /\ At(vecNewBitmap', row + 1, col)
                     = (At(vecNewBitmap, row + 1, col) + share(5)) % 256
              /\ At(vecNewBitmap', row + 1, col + 1)
                     = (At(vecNewBitmap, row + 1, col + 1) + share(1)) % 256
      ]_vars

\* the box filter of C10: one row per destination row index, each sample the
\* truncated mean of the source samples whose row and column map to it
BoxFilter(bm, w, h, ps, newWidth) ==
    LET sf == FloatQuotient(newWidth, w)
        last == MulTrunc(sf, h - 1)
        src(k, i) == {rc \in (0..(h - 1)) \X (0..(w * ps - 1)) :
                          MulTrunc(sf, rc[1]) = k /\ MulTrunc(sf, rc[2]) = i}
        samples(k, i) == [rc \in src(k, i) |-> At(bm, rc[1], rc[2])]
        total(k, i) == LET f == samples(k, i)
                           S[T \in SUBSET src(k, i)] ==
                               IF T = {} THEN 0
                               ELSE LET t == CHOOSE t \in T : TRUE
                                    IN  f[t] + S[T \ {t}]
                       IN  S[src(k, i)]
    IN  [k \in 1..(last + 1) |-> [i \in 1..(newWidth * ps) |->
            total(k - 1, i - 1) \div Cardinality(src(k - 1, i - 1))]]

\* C10: shrink(newWidth), 0 < newWidth < width, emits one row per distinct
\* destination row index floor(scale * sourceRow), and row k holds per
\* destination column the truncated mean of exactly the source samples whose
\* row maps to k and whose column maps to that column.
C10_BoxFilterRows ==
    (/\ call.op = "shrink" /\ pc = "idle" /\ ~ub
     /\ 0 < call.x /\ call.x < pre.width)
    => m_bitmapData = BoxFilter(pre.bitmap, pre.width, pre.height, pre.pixelSize, call.x)

\* the 7 palette entries as a set
PaletteSet == {palet[k] : k \in 1..7}

\* sample (r, c) belongs to a pixel the raster scan left before it came to
\* the pixel at (curRow, curCol)
Visited(r, c, curRow, curCol) == r < curRow \/ (r = curRow /\ c < curCol)

\* sample (r, c) belongs to a pixel the raster scan reaches after the pixel
\* at (curRow, curCol)
Ahead(r, c, curRow, curCol) == r > curRow \/ (r = curRow /\ c >= curCol + 3)

\* C11: throughout fsdColor on a 3-channel buffer (width >= 1, height >= 1),
\* no turn of the loop goes out of bounds; every sample an error share is
\* added to lies inside the buffer and belongs to a pixel not yet visited in
\* raster order; the samples of pixels visited before stay as they are, the
\* pixel visited becomes a palette entry and no sample but its own and the
\* targets' changes; and when fsdColor returns every pixel is one of the 7
\* palette entries and width, height and channels (3) are what they were.
C11_DiffusionAhead ==
    [][(pc = "fsdColor" /\ pre.pixelSize = 3) =>
          /\ ~ub'
          /\ row < m_height =>
                /\ pc' = "fsdColor"
                /\ ~ColorBorder(row, col, m_width, m_height, m_pixelSize) =>
                       \A k \in 1..4, n \in 0..2 :
                           LET t == ColorTargets(row, col)[k]
                           IN  /\ t.row \in 0..(m_height - 1)
                               /\ t.col + n \in 0..((3 * m_width) - 1)
                               /\ InRange(m_bitmapData, t.row, t.col + n)
                               /\ Ahead(t.row, t.col + n, row, col)
                /\ \A r \in 0..(m_height - 1), c \in 0..((3 * m_width) - 1) :
                       /\ Visited(r, c, row, col) =>
                              At(m_bitmapData', r, c) = At(m_bitmapData, r, c)
                       /\ At(m_bitmapData', r, c) # At(m_bitmapData, r, c) =>
                              \/ r = row /\ c \in col..(col + 2)
                              \/ /\ ~ColorBorder(row, col, m_width, m_height, m_pixelSize)
                                 /\ \E k \in 1..4 :
                                        /\ ColorTargets(row, col)[k].row = r
                                        /\ c - ColorTargets(row, col)[k].col \in 0..2
                /\ PixelOf(m_bitmapData', 3, col \div 3, row) \in PaletteSet
          /\ pc' = "idle" =>
                /\ m_width' = pre.width
                /\ m_height' = pre.height
                /\ m_pixelSize' = 3
                /\ Len(m_bitmapData') = pre.height
                /\ \A y \in 0..(pre.height - 1) :
                       /\ Len(m_bitmapData'[y + 1]) = 3 * pre.width
                       /\ \A x \in 0..(pre.width - 1) :
                              PixelOf(m_bitmapData', 3, x, y) \in PaletteSet
      ]_vars

\* fsdColor is about to visit the inner pixel (1, 1) of a buffer whose pixel
\* (1, 0) was no palette entry: the pixels of row 0 are palette entries by
\* now, and the error of (1, 0) has changed the pixel (1, 1) not yet visited
C11_Witness ==
    /\ call.op = "fsdColor" /\ pc = "fsdColor" /\ ~ub
    /\ pre.pixelSize = 3 /\ m_width >= 3 /\ m_height >= 3
    /\ row = 1 /\ col = 3
    /\ PixelOf(pre.bitmap, 3, 1, 0) \notin PaletteSet
    /\ \A x \in 0..(m_width - 1) : PixelOf(m_bitmapData, 3, x, 0) \in PaletteSet
    /\ PixelOf(m_bitmapData, 3, 1, 1) # PixelOf(pre.bitmap, 3, 1, 1)

====
